---- MODULE Spec2Model ----
(***************************************************************************)
(* The event content generator's workflow (src/src/graph.py and the six    *)
(* stage functions under src/src/nodes/): retrieve, draft, critic, verify, *)
(* generate_images, export, with the quality loop after verify.            *)
(*                                                                         *)
(* The completion service, the similarity index and the image service are  *)
(* the environment: each action draws their replies from a finite set.     *)
(* A reply is modelled by the parts the parsing code looks for (marker     *)
(* lines and their tokens), not as raw characters.  Timestamps are not     *)
(* modelled.                                                               *)
(***************************************************************************)
EXTENDS Integers, Sequences, FiniteSets, TLC

VARIABLES
    mode,            \* "graph": graph.invoke; "callbacks": _run_pipeline_with_callbacks
    pc,              \* the stage that runs next, or "done" / "aborted"
    channels,        \* state["channels"], the requested channel list
    event,           \* the other input fields of the state
    has_api_key,     \* whether GEMINI_API_KEY or GOOGLE_API_KEY is set
    brand_chunks,    \* state["brand_chunks"]
    product_chunks,  \* state["product_chunks"]
    drafts,          \* state["drafts"]: an ordered dict channel -> ChannelDraft
    critic_feedback, \* state["critic_feedback"]: <<>> is None, <<f>> a CriticFeedback
    iteration,       \* state["iteration"]
    final_output,    \* state["final_output"]: <<>> is None
    audit_log,       \* state["audit_log"]
    images,          \* state["images"]: an ordered dict channel -> bytes
    critic_reply,    \* the completion reply the Critic stage received in this cycle (<<>>: none yet)
    verifier_replies,\* the completion replies the Verifier stage received in this cycle, per draft
    decision,        \* the last result of should_continue ("none": not evaluated yet)
    local_iteration, \* the local `iteration` of _run_pipeline_with_callbacks
    progress,        \* the on_step invocations so far, in order
    index_replies,   \* what the vector store did on each of the Retriever's two queries (<<>>: none yet)
    image_replies,   \* what each generate_content call of the Image stage did, per draft (<<>>: no call)
    rerun_output,    \* the result of a second export_node call on the same state (<<>>: none)
    copy_text,       \* app.py: the text handed to strip_citations, as tokens (<<>>: none)
    clean_text       \* app.py: what strip_citations returned for it

vars == <<mode, pc, channels, event, has_api_key, brand_chunks, product_chunks,
          drafts, critic_feedback, iteration, final_output, audit_log, images,
          critic_reply, verifier_replies, decision, local_iteration, progress,
          index_replies, image_replies, rerun_output,
          copy_text, clean_text>>

(***************************************************************************)
(* Python values                                                           *)
(***************************************************************************)
\* Python's None where the other values are strings
None == "<None>"
\* a marker line (SOURCE:, SUPPORTED:, HEADLINE:, ...) that a reply does not hold
NoLine == "<no line>"

\* An ordered dict is a sequence of [key, val] records with distinct keys,
\* in insertion order.
EmptyDict == << >>

DictKeys(d) == [i \in 1..Len(d) |-> d[i].key]

DictHas(d, k) == \E i \in 1..Len(d) : d[i].key = k

DictGet(d, k) == d[CHOOSE i \in 1..Len(d) : d[i].key = k].val

\* d[k] = v: an existing key keeps its place, a new key goes last
DictSet(d, k, v) ==
    IF DictHas(d, k)
    THEN [i \in 1..Len(d) |-> IF d[i].key = k THEN [key |-> k, val |-> v] ELSE d[i]]
    ELSE Append(d, [key |-> k, val |-> v])

RECURSIVE SumSeq(_)
SumSeq(s) == IF s = << >> THEN 0 ELSE Head(s) + SumSeq(Tail(s))

RECURSIVE FlattenSeq(_)
FlattenSeq(ss) == IF ss = << >> THEN << >> ELSE Head(ss) \o FlattenSeq(Tail(ss))

RECURSIVE SelectSeqOf(_, _)
\* the elements of s that are in set keep, order kept
SelectSeqOf(s, keep) ==
    IF s = << >> THEN << >>
    ELSE (IF Head(s) \in keep THEN <<Head(s)>> ELSE << >>) \o SelectSeqOf(Tail(s), keep)

SeqRange(s) == {s[i] : i \in 1..Len(s)}

\* every sequence over S of length at most n
SeqsUpTo(S, n) == UNION {[1..k -> S] : k \in 0..n}

(***************************************************************************)
(* str.upper() and str.lower() on the tokens replies hold                  *)
(***************************************************************************)
Upper(s) ==
    CASE s = "none" -> "NONE"
      [] s = "None" -> "NONE"
      [] s = "user_input" -> "USER_INPUT"
      [] s = "User_Input" -> "USER_INPUT"
      [] s = "true" -> "TRUE"
      [] s = "false" -> "FALSE"
      [] s = "chunk_zz" -> "CHUNK_ZZ"
      [] s = "chunk_p1" -> "CHUNK_P1"
      [] s = "chunk_b1" -> "CHUNK_B1"
      [] s = "fallback_product_1" -> "FALLBACK_PRODUCT_1"
      [] OTHER -> s

Lower(s) ==
    CASE s = "NONE" -> "none"
      [] s = "None" -> "none"
      [] s = "USER_INPUT" -> "user_input"
      [] s = "User_Input" -> "user_input"
      [] s = "TRUE" -> "true"
      [] s = "FALSE" -> "false"
      [] s = "Fact one" -> "fact one"
      [] s = "Fact two" -> "fact two"
      [] OTHER -> s

(***************************************************************************)
(* Program constants                                                       *)
(***************************************************************************)
\* the cap reached after two cycles
IterationCap_Two == 3 - 1

\* should_continue: `state.get("iteration", 0) >= 3`
IterationCap == 3
\* the callback loop stopping one cycle early
max_iterations_Two == 3 - 1

\* _run_pipeline_with_callbacks: max_iterations = 3
max_iterations == 3
\* the filter dropping texts of six characters too
MinClaimLen_Six == 5 + 1

\* _extract_claims: `len(claim_text) > 5`
MinClaimLen == 5

\* len() of the claim texts the Verifier's replies hold
StrLen(s) ==
    CASE s = "tiny!" -> 5
      [] s = "Claim1" -> 6
      [] s = "Second claim" -> 12
      [] OTHER -> 9

(***************************************************************************)
(* schemas.py                                                              *)
(***************************************************************************)
Claim(text, source_chunk_id, is_supported) ==
    [text |-> text, source_chunk_id |-> source_chunk_id, is_supported |-> is_supported]

ChannelDraft(channel, headline, body, cta, subject_line, claims) ==
    [channel |-> channel, headline |-> headline, body |-> body, cta |-> cta,
     subject_line |-> subject_line, claims |-> claims]

CriticFeedback(brand_voice_score, cta_clarity_score, length_ok, issues, fixes, passed) ==
    [brand_voice_score |-> brand_voice_score, cta_clarity_score |-> cta_clarity_score,
     length_ok |-> length_ok, issues |-> issues, fixes |-> fixes, passed |-> passed]

AuditEntry(node, action, details) ==
    [node |-> node, action |-> action, details |-> details]

\* ChannelDraft.channel: Literal["linkedin", "facebook", "email", "web"]
ValidChannels == {"linkedin", "facebook", "email", "web"}

(***************************************************************************)
(* rag/retrieve.py                                                         *)
(***************************************************************************)
Chunk(id, source) == [id |-> id, source |-> source]

\* _get_fallback_chunks
FallbackChunks(collection_name) ==
    IF collection_name = "brand_voice"
    THEN <<Chunk("fallback_brand_1", "fallback"), Chunk("fallback_brand_2", "fallback")>>
    ELSE IF collection_name = "product_docs"
    THEN <<Chunk("fallback_product_1", "fallback")>>
    ELSE << >>

\* what collection.query returns for a collection that holds documents
\* (at most top_k ids, in the store's rank order)
IndexHits(collection_name) ==
    IF collection_name = "brand_voice"
    THEN <<Chunk("chunk_b1", "brand.md")>>
    ELSE <<Chunk("chunk_p1", "product.md")>>

\* the index as retrieve_chunks finds it: the call raises, the collection
\* is empty, or the query returns hits
IndexOutcomes == {"raises", "empty", "hits"}

\* a raised index call giving no chunks instead of the fallback set
retrieve_chunks_EmptyOnError(collection_name, outcome) ==
    IF outcome = "raises" THEN << >>
    ELSE IF outcome = "empty" THEN FallbackChunks(collection_name)
    ELSE IndexHits(collection_name)

\* retrieve_chunks: fails open to the fallback set
retrieve_chunks(collection_name, outcome) ==
    IF outcome = "raises" THEN FallbackChunks(collection_name)
    ELSE IF outcome = "empty" THEN FallbackChunks(collection_name)
    ELSE IndexHits(collection_name)

(***************************************************************************)
(* nodes/verifier.py: _extract_claims                                      *)
(*                                                                         *)
(* A Verifier reply is the sequence of blocks re.split leaves; a block is  *)
(* what the three re.search calls find in it: the text after CLAIM:, the   *)
(* token after SOURCE:, the token after SUPPORTED: (NoLine: no match).     *)
(***************************************************************************)
VerifierBlock(claim, source, supported) ==
    [claim |-> claim, source |-> source, supported |-> supported]

\* SOURCE: NONE clears the source but leaves the SUPPORTED line's verdict
ParseBlock_TrustsSupportedLine(block) ==
    IF block.claim = NoLine
    THEN << >>
    ELSE
        LET source_id0 == IF block.source # NoLine THEN block.source ELSE None
            is_supported0 ==
                IF block.supported # NoLine
                THEN Lower(block.supported) = "true"
                ELSE FALSE
            is_none == source_id0 # None /\ Upper(source_id0) = "NONE"
            is_user == source_id0 # None /\ Lower(source_id0) = "user_input"
        IN  IF StrLen(block.claim) > MinClaimLen
            THEN <<Claim(block.claim, IF is_none THEN None ELSE source_id0,
                         IF is_user THEN TRUE ELSE is_supported0)>>
            ELSE << >>

\* user_input recognised in lower case only
ParseBlock_UserInputExactCase(block) ==
    IF block.claim = NoLine
    THEN << >>
    ELSE
        LET source_id0 == IF block.source # NoLine THEN block.source ELSE None
            is_supported0 ==
                IF block.supported # NoLine
                THEN Lower(block.supported) = "true"
                ELSE FALSE
            is_none == source_id0 # None /\ Upper(source_id0) = "NONE"
            is_user == source_id0 = "user_input"
        IN  IF StrLen(block.claim) > MinClaimLen
            THEN <<Claim(block.claim, IF is_none THEN None ELSE source_id0,
                         IF is_none THEN FALSE
                         ELSE IF is_user THEN TRUE
                         ELSE is_supported0)>>
            ELSE << >>

\* one pass of the `for block in claim_blocks` loop: the claims it appends
ParseBlock(block) ==
    IF block.claim = NoLine
    THEN << >>
    ELSE
        LET claim_text == block.claim
            source_id0 == IF block.source # NoLine THEN block.source ELSE None
            is_supported0 ==
                IF block.supported # NoLine
                THEN Lower(block.supported) = "true"
                ELSE FALSE
            is_none == source_id0 # None /\ Upper(source_id0) = "NONE"
            is_user == source_id0 # None /\ Lower(source_id0) = "user_input"
            source_id == IF is_none THEN None ELSE source_id0
            is_supported ==
                IF is_none THEN FALSE
                ELSE IF is_user THEN TRUE
                ELSE is_supported0
        IN  IF StrLen(claim_text) > MinClaimLen
            THEN <<Claim(claim_text, source_id, is_supported)>>
            ELSE << >>

_extract_claims(reply) == FlattenSeq([i \in 1..Len(reply) |-> ParseBlock(reply[i])])

(***************************************************************************)
(* nodes/drafter.py: _parse_draft_response                                 *)
(*                                                                         *)
(* A Drafter reply is what the section regexes find in it: the first line  *)
(* after HEADLINE:, SUBJECT: and CTA: (NoLine: no such marker), the text   *)
(* after BODY: as a sequence of sentences, and the lines after CLAIMS:.    *)
(* A sentence or claim line holds its text without the citation marker,    *)
(* and the id of its [source: id] marker (NoLine: it has none).  When the  *)
(* reply has no BODY: marker, `body` holds the lines that stand under no   *)
(* marker.  The sections come in the order the prompt asks for.            *)
(***************************************************************************)
Sentence(marker, text, cite) == [marker |-> marker, text |-> text, cite |-> cite]

ClaimLine(text, source) == [text |-> text, source |-> source]

\* the text of a whole line of the response that starts with "- "
BulletText(t) ==
    CASE t = "Fact one" -> "- Fact one"
      [] t = "Fact two" -> "- Fact two"
      [] OTHER -> t

\* response_text as sentences, every marker line included: the body when
\* no BODY: marker is found
WholeResponse(reply) ==
    (IF reply.headline # NoLine
     THEN <<Sentence("HEADLINE:", reply.headline, NoLine)>> ELSE << >>)
    \o (IF reply.subject # NoLine
        THEN <<Sentence("SUBJECT:", reply.subject, NoLine)>> ELSE << >>)
    \o reply.body
    \o (IF reply.cta # NoLine
        THEN <<Sentence("CTA:", reply.cta, NoLine)>> ELSE << >>)
    \o (IF reply.has_claims
        THEN <<Sentence("CLAIMS:", "", NoLine)>>
             \o [i \in 1..Len(reply.claims) |->
                   Sentence("-", reply.claims[i].text, reply.claims[i].source)]
        ELSE << >>)

\* the claims of the CLAIMS: section, one per line with a text
SectionClaims(reply) ==
    IF reply.has_claims
    THEN FlattenSeq([i \in 1..Len(reply.claims) |->
            LET source_id == IF reply.claims[i].source # NoLine
                             THEN reply.claims[i].source ELSE None
                claim_text == reply.claims[i].text
            IN  IF claim_text # ""
                THEN <<Claim(claim_text, source_id, source_id # None)>>
                ELSE << >>])
    ELSE << >>

\* the claim text re.findall and re.sub leave of a cited sentence of the body
InlineText(sentence) ==
    IF sentence.marker = "-" THEN BulletText(sentence.text) ELSE sentence.text

RECURSIVE InlineClaims(_, _)
\* the loop over inline_citations: claims grows by the cited sentences whose
\* lowered text no claim has yet
InlineClaims(body, claims) ==
    IF body = << >> THEN claims
    ELSE LET s == Head(body)
             claim_text == InlineText(s)
             existing_texts == {Lower(claims[i].text) : i \in 1..Len(claims)}
         IN  IF s.cite # NoLine /\ claim_text # "" /\ Lower(claim_text) \notin existing_texts
             THEN InlineClaims(Tail(body), Append(claims, Claim(claim_text, s.cite, TRUE)))
             ELSE InlineClaims(Tail(body), claims)

_parse_draft_response(channel, reply) ==
    LET headline == IF reply.headline # NoLine THEN reply.headline ELSE None
        subject_line == IF reply.subject # NoLine THEN reply.subject ELSE None
        body == IF reply.has_body THEN reply.body ELSE WholeResponse(reply)
        cta == IF reply.cta # NoLine THEN reply.cta ELSE "Learn more"
        claims == InlineClaims(body, SectionClaims(reply))
    IN  ChannelDraft(channel, headline, body, cta, subject_line, claims)

(***************************************************************************)
(* nodes/critic.py: _parse_critic_response                                 *)
(*                                                                         *)
(* A Critic reply is the values of its BRAND_VOICE_SCORE, CTA_CLARITY_SCORE*)
(* LENGTH_OK and PASSED lines.                                             *)
(***************************************************************************)
CriticReply(brand_voice_score, cta_clarity_score, length_ok, passed_line) ==
    [brand_voice_score |-> brand_voice_score, cta_clarity_score |-> cta_clarity_score,
     length_ok |-> length_ok, passed_line |-> passed_line]

\* the reply's scores taken over, the verdict still the default pass
_parse_critic_response_ScoresFromReply(reply) ==
    CriticFeedback(reply.brand_voice_score, reply.cta_clarity_score, reply.length_ok,
                   << >>, << >>, TRUE)

\* the placeholder: the reply is not read
_parse_critic_response(reply) == CriticFeedback(8, 8, TRUE, << >>, << >>, TRUE)

(***************************************************************************)
(* graph.py: should_continue                                               *)
(***************************************************************************)
\* the critic's verdict not consulted
should_continue_SkipsCritic(it, feedback, dr) ==
    IF it >= IterationCap THEN "export"
    ELSE IF \E i \in 1..Len(dr) : \E j \in 1..Len(dr[i].val.claims) :
                ~dr[i].val.claims[j].is_supported
         THEN "draft"
    ELSE "export"

\* the cap tested with > instead of >=
should_continue_StrictCap(it, feedback, dr) ==
    IF it > IterationCap THEN "export"
    ELSE IF feedback # << >> /\ ~feedback[1].passed THEN "draft"
    ELSE IF \E i \in 1..Len(dr) : \E j \in 1..Len(dr[i].val.claims) :
                ~dr[i].val.claims[j].is_supported
         THEN "draft"
    ELSE "export"

\* the critic verdict tested before the cap
should_continue_CriticFirst(it, feedback, dr) ==
    IF feedback # << >> /\ ~feedback[1].passed THEN "draft"
    ELSE IF it >= IterationCap THEN "export"
    ELSE IF \E i \in 1..Len(dr) : \E j \in 1..Len(dr[i].val.claims) :
                ~dr[i].val.claims[j].is_supported
         THEN "draft"
    ELSE "export"

should_continue(it, feedback, dr) ==
    IF it >= IterationCap THEN "export"
    ELSE IF feedback # << >> /\ ~feedback[1].passed THEN "draft"
    ELSE IF \E i \in 1..Len(dr) : \E j \in 1..Len(dr[i].val.claims) :
                ~dr[i].val.claims[j].is_supported
         THEN "draft"
    ELSE "export"

(***************************************************************************)
(* The replies the environment gives in a run of the workflow              *)
(***************************************************************************)
\* the channel lists a run is started with
ChannelLists == {<<"linkedin">>, <<"email", "web">>}

\* the event form
EventInput ==
    [event_title |-> "Launch Day", event_description |-> "A product launch",
     event_date |-> None, target_audience |-> "Engineers",
     key_messages |-> <<"Ship faster">>, relevant_urls |-> << >>]

\* every section present; the body cites a chunk, one listed claim names no source
DraftReplyFull ==
    [headline |-> "Headline", subject |-> NoLine, has_body |-> TRUE,
     body |-> <<Sentence("", "Join us", NoLine),
                Sentence("", "fact one", "fallback_product_1")>>,
     cta |-> "Register now", has_claims |-> TRUE,
     claims |-> <<ClaimLine("Fact one", "fallback_product_1"),
                  ClaimLine("Fact two", NoLine)>>]

\* free text with no marker at all, citing [source: NONE]
DraftReplyBare ==
    [headline |-> NoLine, subject |-> NoLine, has_body |-> FALSE,
     body |-> <<Sentence("", "Just text", "NONE")>>,
     cta |-> NoLine, has_claims |-> FALSE, claims |-> << >>]

\* the empty string
DraftReplyEmpty ==
    [headline |-> NoLine, subject |-> NoLine, has_body |-> FALSE, body |-> << >>,
     cta |-> NoLine, has_claims |-> FALSE, claims |-> << >>]

\* a message with no content: response.choices[0].message.content is None
NoContent == [content |-> None]

DrafterReplies == {DraftReplyFull, DraftReplyBare}

CriticReplies == {CriticReply(5, 8, TRUE, "false"), CriticReply(9, 9, TRUE, "true")}

BlockSupported == VerifierBlock("Claim1", "fallback_product_1", "true")
BlockNone == VerifierBlock("Second claim", "NONE", "true")

VerifierReplies == {<< >>, <<BlockSupported>>, <<BlockNone>>}

\* the vector store in a run of the workflow: each collection answers,
\* is empty or raises in some run, and every pair of results occurs
IndexCases ==
    {<<"hits", "hits">>, <<"empty", "hits">>, <<"hits", "raises">>, <<"empty", "raises">>}

\* one generate_content call: an image part, no image part, or an exception
ImageOutcomes == {"image", "no_image", "raises"}

(***************************************************************************)
(* The progress callback                                                   *)
(***************************************************************************)
\* on_step(step, get_step_details(...), it)
StepCall(step, it) == [step |-> step, iteration |-> it]

\* run_pipeline calls on_step only when one is given
OnStep(calls) == IF mode = "callbacks" THEN progress \o calls ELSE progress

(***************************************************************************)
(* run_pipeline: the initial state                                         *)
(***************************************************************************)
Init ==
    /\ mode \in {"graph", "callbacks"}
    /\ pc = "retrieve"
    /\ channels \in ChannelLists
    /\ event = EventInput
    /\ has_api_key \in BOOLEAN
    /\ brand_chunks = << >>
    /\ product_chunks = << >>
    /\ drafts = EmptyDict
    /\ critic_feedback = << >>
    /\ iteration = 0
    /\ final_output = << >>
    /\ audit_log = << >>
    /\ images = EmptyDict
    /\ critic_reply = << >>
    /\ verifier_replies = << >>
    /\ decision = "none"
    /\ local_iteration = 0
    /\ progress = << >>
    /\ index_replies = << >>
    /\ image_replies = << >>
    /\ rerun_output = << >>
    /\ copy_text = << >>
    /\ clean_text = << >>

(***************************************************************************)
(* nodes/retriever.py: retrieve_node                                       *)
(***************************************************************************)
RetrieveAuditEntry(brand, product) ==
    AuditEntry("retrieve", "retrieved_chunks",
               [brand_chunks_count |-> Len(brand), product_chunks_count |-> Len(product)])

\* the query built by joining key_messages in place
RetrieveWith_JoinsKeyMessages(cases) ==
    /\ pc = "retrieve"
    /\ \E outcomes \in cases :
         LET brand == retrieve_chunks("brand_voice", outcomes[1])
             product == retrieve_chunks("product_docs", outcomes[2])
         IN  /\ index_replies' = outcomes
             /\ brand_chunks' = brand
             /\ product_chunks' = product
             /\ audit_log' = audit_log \o <<RetrieveAuditEntry(brand, product)>>
    /\ event' = [event EXCEPT !.key_messages = << >>]
    /\ progress' = OnStep(<<StepCall("retrieve", 0), StepCall("retrieve_done", 0)>>)
    /\ pc' = "draft"
    /\ UNCHANGED <<mode, channels, has_api_key, drafts, critic_feedback,
                   iteration, final_output, images, critic_reply, verifier_replies,
                   decision, local_iteration, image_replies, rerun_output,
                   copy_text, clean_text>>

\* retrieve_node, with the vector store answering the two queries as one of
\* `cases` (pairs: brand_voice query, product_docs query)
RetrieveWith(cases) ==
    /\ pc = "retrieve"
    /\ \E outcomes \in cases :
         LET brand == retrieve_chunks("brand_voice", outcomes[1])
             product == retrieve_chunks("product_docs", outcomes[2])
         IN  /\ index_replies' = outcomes
             /\ brand_chunks' = brand
             /\ product_chunks' = product
             /\ audit_log' = audit_log \o <<RetrieveAuditEntry(brand, product)>>
    /\ progress' = OnStep(<<StepCall("retrieve", 0), StepCall("retrieve_done", 0)>>)
    /\ pc' = "draft"
    /\ UNCHANGED <<mode, channels, event, has_api_key, drafts, critic_feedback,
                   iteration, final_output, images, critic_reply, verifier_replies,
                   decision, local_iteration, image_replies, rerun_output,
                   copy_text, clean_text>>

Retrieve == RetrieveWith(IndexCases)

(***************************************************************************)
(* nodes/drafter.py: draft_node                                            *)
(***************************************************************************)
RECURSIVE BuildDrafts_KeepsClaims(_, _, _)
\* each new draft starting from the claims of the channel's previous draft
BuildDrafts_KeepsClaims(chs, replies, acc) ==
    IF chs = << >> THEN acc
    ELSE BuildDrafts_KeepsClaims(Tail(chs), Tail(replies),
             DictSet(acc, Head(chs),
                 LET draft == _parse_draft_response(Head(chs), Head(replies))
                     kept == IF DictHas(drafts, Head(chs))
                             THEN DictGet(drafts, Head(chs)).claims ELSE << >>
                 IN  [draft EXCEPT !.claims = kept \o @]))

RECURSIVE BuildDrafts(_, _, _)
\* the `for channel in state["channels"]` loop, from an empty dict
BuildDrafts(chs, replies, acc) ==
    IF chs = << >> THEN acc
    ELSE BuildDrafts(Tail(chs), Tail(replies),
                     DictSet(acc, Head(chs), _parse_draft_response(Head(chs), Head(replies))))

\* the counter advanced by two
NextIteration_SkipsOne(it) == it + 2

NextIteration(it) == it + 1

\* feedback held back until the third cycle
HadFeedback_FromThird(feedback, new_iteration) == feedback # << >> /\ new_iteration > 2

\* bool(feedback_text)
HadFeedback(feedback, new_iteration) == feedback # << >> /\ new_iteration > 1

DraftAuditEntry(new_iteration, new_drafts, feedback) ==
    AuditEntry("draft", "generated_drafts",
               [iteration |-> new_iteration, channels |-> DictKeys(new_drafts),
                had_feedback |-> HadFeedback(feedback, new_iteration)])

\* draft_node, with the completion service answering each channel's call with
\* a message from `reply_set`; re.search raises TypeError on a message whose
\* content is None, and nothing catches it
DraftWith(reply_set) ==
    /\ pc = "draft"
    /\ \E replies \in [1..Len(channels) -> reply_set] :
         IF \E i \in 1..Len(channels) : replies[i] = NoContent
         THEN /\ pc' = "aborted"
              /\ UNCHANGED <<drafts, audit_log, iteration, critic_reply, verifier_replies>>
         ELSE LET new_drafts == BuildDrafts(channels, replies, EmptyDict)
              IN  /\ drafts' = new_drafts
                  /\ audit_log' = audit_log
                         \o <<DraftAuditEntry(NextIteration(iteration), new_drafts,
                                              critic_feedback)>>
                  /\ iteration' = NextIteration(iteration)
                  /\ critic_reply' = << >>
                  /\ verifier_replies' = << >>
                  /\ pc' = "critic"
    /\ local_iteration' = IF mode = "callbacks" THEN iteration ELSE local_iteration
    /\ progress' = OnStep(<<StepCall("draft", iteration)>>)
    /\ UNCHANGED <<mode, channels, event, has_api_key, brand_chunks, product_chunks,
                   critic_feedback, final_output, images, decision,
                   index_replies, image_replies, rerun_output,
                   copy_text, clean_text>>

Draft == DraftWith(DrafterReplies)

\* the exception swallowed inside the stage, the run going on to the Critic
DraftRaises_Caught ==
    /\ pc = "draft"
    /\ pc' = "critic"
    /\ local_iteration' = IF mode = "callbacks" THEN iteration ELSE local_iteration
    /\ progress' = OnStep(<<StepCall("draft", iteration)>>)
    /\ UNCHANGED <<mode, channels, event, has_api_key, brand_chunks, product_chunks,
                   drafts, critic_feedback, iteration, final_output, audit_log, images,
                   critic_reply, verifier_replies, decision,
                   index_replies, image_replies, rerun_output,
                   copy_text, clean_text>>

\* client.chat.completions.create raises: nothing catches it, the run ends
DraftRaises ==
    /\ pc = "draft"
    /\ pc' = "aborted"
    /\ local_iteration' = IF mode = "callbacks" THEN iteration ELSE local_iteration
    /\ progress' = OnStep(<<StepCall("draft", iteration)>>)
    /\ UNCHANGED <<mode, channels, event, has_api_key, brand_chunks, product_chunks,
                   drafts, critic_feedback, iteration, final_output, audit_log, images,
                   critic_reply, verifier_replies, decision,
                   index_replies, image_replies, rerun_output,
                   copy_text, clean_text>>

(***************************************************************************)
(* nodes/critic.py: critic_node                                            *)
(***************************************************************************)
CriticAuditEntry(feedback) ==
    AuditEntry("critic", "evaluated_drafts",
               [brand_voice_score |-> feedback.brand_voice_score,
                cta_clarity_score |-> feedback.cta_clarity_score,
                passed |-> feedback.passed,
                issues_count |-> Len(feedback.issues)])

\* the feedback logged but not stored in the state
Critic_DropsFeedback ==
    /\ pc = "critic"
    /\ \E reply \in CriticReplies :
         LET feedback == _parse_critic_response(reply)
         IN  /\ critic_reply' = <<reply>>
             /\ critic_feedback' = critic_feedback
             /\ audit_log' = audit_log \o <<CriticAuditEntry(feedback)>>
    /\ progress' = OnStep(<<StepCall("critic", local_iteration),
                            StepCall("critic_done", local_iteration)>>)
    /\ pc' = "verify"
    /\ UNCHANGED <<mode, channels, event, has_api_key, brand_chunks, product_chunks,
                   drafts, iteration, final_output, images, verifier_replies,
                   decision, local_iteration,
                   index_replies, image_replies, rerun_output,
                   copy_text, clean_text>>

Critic ==
    /\ pc = "critic"
    /\ \E reply \in CriticReplies :
         LET feedback == _parse_critic_response(reply)
         IN  /\ critic_reply' = <<reply>>
             /\ critic_feedback' = <<feedback>>
             /\ audit_log' = audit_log \o <<CriticAuditEntry(feedback)>>
    /\ progress' = OnStep(<<StepCall("critic", local_iteration),
                            StepCall("critic_done", local_iteration)>>)
    /\ pc' = "verify"
    /\ UNCHANGED <<mode, channels, event, has_api_key, brand_chunks, product_chunks,
                   drafts, iteration, final_output, images, verifier_replies,
                   decision, local_iteration,
                   index_replies, image_replies, rerun_output,
                   copy_text, clean_text>>

CriticRaises ==
    /\ pc = "critic"
    /\ pc' = "aborted"
    /\ progress' = OnStep(<<StepCall("critic", local_iteration)>>)
    /\ UNCHANGED <<mode, channels, event, has_api_key, brand_chunks, product_chunks,
                   drafts, critic_feedback, iteration, final_output, audit_log, images,
                   critic_reply, verifier_replies, decision, local_iteration,
                   index_replies, image_replies, rerun_output,
                   copy_text, clean_text>>

(***************************************************************************)
(* nodes/verifier.py: verify_node, and the conditional edge after it       *)
(***************************************************************************)
\* the parsed claims added after the Drafter's own
VerifiedDrafts_AppendsClaims(dr, replies) ==
    [i \in 1..Len(dr) |->
        [key |-> dr[i].key,
         val |-> [dr[i].val EXCEPT !.claims = @ \o _extract_claims(replies[i])]]]

\* verified_drafts: each draft with its claims replaced by the claims
\* parsed from that draft's reply
VerifiedDrafts(dr, replies) ==
    [i \in 1..Len(dr) |->
        [key |-> dr[i].key,
         val |-> [dr[i].val EXCEPT !.claims = _extract_claims(replies[i])]]]

\* unsupported_claims: {"channel", "claim"} of every claim not supported
UnsupportedClaims(vd) ==
    FlattenSeq([i \in 1..Len(vd) |->
        FlattenSeq([j \in 1..Len(vd[i].val.claims) |->
            IF ~vd[i].val.claims[j].is_supported
            THEN <<[channel |-> vd[i].key, claim |-> vd[i].val.claims[j].text]>>
            ELSE << >>])])

\* unsupported_claims counting the drafts that hold an unsupported claim
VerifyAuditEntry_CountsDrafts(vd) ==
    AuditEntry("verify", "verified_claims",
               [total_claims |-> SumSeq([i \in 1..Len(vd) |-> Len(vd[i].val.claims)]),
                unsupported_claims |->
                    Cardinality({i \in 1..Len(vd) :
                        \E j \in 1..Len(vd[i].val.claims) : ~vd[i].val.claims[j].is_supported}),
                unsupported_details |-> UnsupportedClaims(vd)])

VerifyAuditEntry(vd) ==
    AuditEntry("verify", "verified_claims",
               [total_claims |-> SumSeq([i \in 1..Len(vd) |-> Len(vd[i].val.claims)]),
                unsupported_claims |-> Len(UnsupportedClaims(vd)),
                unsupported_details |-> UnsupportedClaims(vd)])

\* "export" wired to END instead of generate_images
AfterVerify_ExportEndsRun(m, next_step, it) ==
    IF m = "graph"
    THEN (IF next_step = "draft" THEN "draft" ELSE "done")
    ELSE (IF next_step = "export" \/ it >= max_iterations
          THEN "done" ELSE "draft")

\* the finalize edge wired to export, past the Image stage
AfterVerify_SkipsImages(m, next_step, it) ==
    IF m = "graph"
    THEN (IF next_step = "draft" THEN "draft" ELSE "export")
    ELSE (IF next_step = "export" \/ it >= max_iterations
          THEN "export" ELSE "draft")

\* the stage that follows verify: the graph's conditional edge, or the
\* `break` test of the callback loop
AfterVerify(m, next_step, it) ==
    IF m = "graph"
    THEN (IF next_step = "draft" THEN "draft" ELSE "generate_images")
    ELSE (IF next_step = "export" \/ it >= max_iterations
          THEN "generate_images" ELSE "draft")

VerifyWith(reply_set) ==
    /\ pc = "verify"
    /\ \E replies \in [1..Len(drafts) -> reply_set] :
         LET vd == VerifiedDrafts(drafts, replies)
             next_step == should_continue(iteration, critic_feedback, vd)
         IN  /\ verifier_replies' = replies
             /\ drafts' = vd
             /\ audit_log' = audit_log \o <<VerifyAuditEntry(vd)>>
             /\ decision' = next_step
             /\ pc' = AfterVerify(mode, next_step, iteration)
    /\ progress' = OnStep(<<StepCall("verify", local_iteration),
                            StepCall("verify_done", local_iteration)>>)
    /\ UNCHANGED <<mode, channels, event, has_api_key, brand_chunks, product_chunks,
                   critic_feedback, iteration, final_output, images, critic_reply,
                   local_iteration,
                   index_replies, image_replies, rerun_output,
                   copy_text, clean_text>>

Verify == VerifyWith(VerifierReplies)

VerifyRaises ==
    /\ pc = "verify"
    /\ drafts # EmptyDict
    /\ pc' = "aborted"
    /\ progress' = OnStep(<<StepCall("verify", local_iteration)>>)
    /\ UNCHANGED <<mode, channels, event, has_api_key, brand_chunks, product_chunks,
                   drafts, critic_feedback, iteration, final_output, audit_log, images,
                   critic_reply, verifier_replies, decision, local_iteration,
                   index_replies, image_replies, rerun_output,
                   copy_text, clean_text>>

(***************************************************************************)
(* nodes/image_generator.py: generate_images_node                          *)
(***************************************************************************)
RECURSIVE BuildImages_StopsAtFailure(_, _, _)
\* the loop left at the first call that raises
BuildImages_StopsAtFailure(dr, outcomes, acc) ==
    IF dr = << >> THEN acc
    ELSE IF Head(outcomes) = "raises" THEN acc
    ELSE BuildImages_StopsAtFailure(Tail(dr), Tail(outcomes),
                     IF Head(outcomes) = "image"
                     THEN DictSet(acc, Head(dr).key, "bytes")
                     ELSE acc)

RECURSIVE BuildImages(_, _, _)
\* the loop over the drafts: a channel gets an image when its call
\* returned an image part
BuildImages(dr, outcomes, acc) ==
    IF dr = << >> THEN acc
    ELSE BuildImages(Tail(dr), Tail(outcomes),
                     IF Head(outcomes) = "image"
                     THEN DictSet(acc, Head(dr).key, "bytes")
                     ELSE acc)

\* errors: {"channel", "error"} of every call that raised
ImageErrors(dr, outcomes) ==
    FlattenSeq([i \in 1..Len(dr) |->
        IF outcomes[i] = "raises"
        THEN <<[channel |-> dr[i].key, error |-> "error"]>>
        ELSE << >>])

\* the skip logged under the action of a normal run
SkippedAuditEntry_ActionGenerated ==
    AuditEntry("generate_images", "generated_images",
               [reason |-> "No GEMINI_API_KEY found in environment"])

SkippedAuditEntry ==
    AuditEntry("generate_images", "skipped",
               [reason |-> "No GEMINI_API_KEY found in environment"])

ImagesAuditEntry(dr, outcomes) ==
    AuditEntry("generate_images", "generated_images",
               [channels_requested |-> DictKeys(dr),
                images_generated |-> Len(BuildImages(dr, outcomes, EmptyDict)),
                errors |-> ImageErrors(dr, outcomes)])

\* the skip path returning without an audit entry
GenerateImages_SkipWithoutAudit ==
    /\ pc = "generate_images"
    /\ IF ~has_api_key
       THEN /\ images' = EmptyDict
            /\ image_replies' = << >>
            /\ audit_log' = audit_log
       ELSE \E outcomes \in [1..Len(drafts) -> ImageOutcomes] :
            /\ images' = BuildImages(drafts, outcomes, EmptyDict)
            /\ image_replies' = outcomes
            /\ audit_log' = audit_log \o <<ImagesAuditEntry(drafts, outcomes)>>
    /\ local_iteration' = IF mode = "callbacks" THEN iteration ELSE local_iteration
    /\ progress' = OnStep(<<StepCall("generate_images", iteration),
                            StepCall("generate_images_done", iteration)>>)
    /\ pc' = "export"
    /\ UNCHANGED <<mode, channels, event, has_api_key, brand_chunks, product_chunks,
                   drafts, critic_feedback, iteration, final_output, critic_reply,
                   verifier_replies, decision,
                   index_replies, rerun_output,
                   copy_text, clean_text>>

GenerateImages ==
    /\ pc = "generate_images"
    /\ IF ~has_api_key
       THEN /\ images' = EmptyDict
            /\ image_replies' = << >>
            /\ audit_log' = audit_log \o <<SkippedAuditEntry>>
       ELSE \E outcomes \in [1..Len(drafts) -> ImageOutcomes] :
            /\ images' = BuildImages(drafts, outcomes, EmptyDict)
            /\ image_replies' = outcomes
            /\ audit_log' = audit_log \o <<ImagesAuditEntry(drafts, outcomes)>>
    /\ local_iteration' = IF mode = "callbacks" THEN iteration ELSE local_iteration
    /\ progress' = OnStep(<<StepCall("generate_images", iteration),
                            StepCall("generate_images_done", iteration)>>)
    /\ pc' = "export"
    /\ UNCHANGED <<mode, channels, event, has_api_key, brand_chunks, product_chunks,
                   drafts, critic_feedback, iteration, final_output, critic_reply,
                   verifier_replies, decision,
                   index_replies, rerun_output,
                   copy_text, clean_text>>

(***************************************************************************)
(* nodes/exporter.py: export_node                                          *)
(***************************************************************************)
ExportContent(dr) ==
    [i \in 1..Len(dr) |->
        [key |-> dr[i].key,
         val |-> [headline |-> dr[i].val.headline, body |-> dr[i].val.body,
                  cta |-> dr[i].val.cta, subject_line |-> dr[i].val.subject_line]]]

\* no feedback counted as a pass
Scorecard_AbsentPasses(feedback, it) ==
    [brand_voice_score |->
        IF feedback # << >> THEN <<feedback[1].brand_voice_score>> ELSE << >>,
     cta_clarity_score |->
        IF feedback # << >> THEN <<feedback[1].cta_clarity_score>> ELSE << >>,
     iterations |-> it,
     passed |-> IF feedback # << >> THEN feedback[1].passed ELSE TRUE]

\* a score is <<n>>, or << >> for None
Scorecard(feedback, it) ==
    [brand_voice_score |->
        IF feedback # << >> THEN <<feedback[1].brand_voice_score>> ELSE << >>,
     cta_clarity_score |->
        IF feedback # << >> THEN <<feedback[1].cta_clarity_score>> ELSE << >>,
     iterations |-> it,
     passed |-> IF feedback # << >> THEN feedback[1].passed ELSE FALSE]

\* only the claims that need attention listed
ClaimsTable_UnsupportedOnly(dr) ==
    FlattenSeq([i \in 1..Len(dr) |->
        FlattenSeq([j \in 1..Len(dr[i].val.claims) |->
            IF dr[i].val.claims[j].is_supported THEN << >>
            ELSE <<[claim |-> dr[i].val.claims[j].text,
                    source |-> dr[i].val.claims[j].source_chunk_id,
                    is_supported |-> dr[i].val.claims[j].is_supported,
                    channel |-> dr[i].key]>>])])

ClaimsTable(dr) ==
    FlattenSeq([i \in 1..Len(dr) |->
        [j \in 1..Len(dr[i].val.claims) |->
            [claim |-> dr[i].val.claims[j].text,
             source |-> dr[i].val.claims[j].source_chunk_id,
             is_supported |-> dr[i].val.claims[j].is_supported,
             channel |-> dr[i].key]]])

\* what one call draws: _generate_run_id(), a fresh uuid, and
\* datetime.utcnow().isoformat(), the time of the call
RunStamps == {<<"run_a", "t1">>, <<"run_b", "t2">>}

\* the output built without the image map
FinalOutput_NoImages(run_id, timestamp) ==
    [content |-> ExportContent(drafts),
     images |-> EmptyDict,
     relevant_urls |-> event.relevant_urls,
     scorecard |-> Scorecard(critic_feedback, iteration),
     claims_table |-> ClaimsTable(drafts),
     audit_log |->
        [run_id |-> run_id,
         timestamp |-> timestamp,
         input |-> [event_title |-> event.event_title,
                    event_description |-> event.event_description,
                    event_date |-> event.event_date,
                    target_audience |-> event.target_audience,
                    key_messages |-> event.key_messages,
                    channels |-> channels],
         sources_retrieved |-> [brand_chunks |-> Len(brand_chunks),
                                product_chunks |-> Len(product_chunks)],
         iterations |-> audit_log]]

\* "iterations" holding the Drafter's entries only
FinalOutput_DraftEntriesOnly(run_id, timestamp) ==
    LET IsDraft(entry) == entry.node = "draft"
    IN  [content |-> ExportContent(drafts),
         images |-> images,
         relevant_urls |-> event.relevant_urls,
         scorecard |-> Scorecard(critic_feedback, iteration),
         claims_table |-> ClaimsTable(drafts),
         audit_log |->
            [run_id |-> run_id,
             timestamp |-> timestamp,
             input |-> [event_title |-> event.event_title,
                        event_description |-> event.event_description,
                        event_date |-> event.event_date,
                        target_audience |-> event.target_audience,
                        key_messages |-> event.key_messages,
                        channels |-> channels],
             sources_retrieved |-> [brand_chunks |-> Len(brand_chunks),
                                    product_chunks |-> Len(product_chunks)],
             iterations |-> SelectSeq(audit_log, IsDraft)]]

\* the embedded log closed with the Exporter's own timestamped entry
FinalOutput_StampedLog(run_id, timestamp) ==
    [content |-> ExportContent(drafts),
     images |-> images,
     relevant_urls |-> event.relevant_urls,
     scorecard |-> Scorecard(critic_feedback, iteration),
     claims_table |-> ClaimsTable(drafts),
     audit_log |->
        [run_id |-> run_id,
         timestamp |-> timestamp,
         input |-> [event_title |-> event.event_title,
                    event_description |-> event.event_description,
                    event_date |-> event.event_date,
                    target_audience |-> event.target_audience,
                    key_messages |-> event.key_messages,
                    channels |-> channels],
         sources_retrieved |-> [brand_chunks |-> Len(brand_chunks),
                                product_chunks |-> Len(product_chunks)],
         iterations |-> audit_log \o <<[node |-> "export", timestamp |-> timestamp]>>]]

\* final_output
FinalOutput(run_id, timestamp) ==
    [content |-> ExportContent(drafts),
     images |-> images,
     relevant_urls |-> event.relevant_urls,
     scorecard |-> Scorecard(critic_feedback, iteration),
     claims_table |-> ClaimsTable(drafts),
     audit_log |->
        [run_id |-> run_id,
         timestamp |-> timestamp,
         input |-> [event_title |-> event.event_title,
                    event_description |-> event.event_description,
                    event_date |-> event.event_date,
                    target_audience |-> event.target_audience,
                    key_messages |-> event.key_messages,
                    channels |-> channels],
         sources_retrieved |-> [brand_chunks |-> Len(brand_chunks),
                                product_chunks |-> Len(product_chunks)],
         iterations |-> audit_log]]

ExportAuditEntry ==
    AuditEntry("export", "exported_final_output",
               [channels_exported |-> DictKeys(ExportContent(drafts)),
                total_claims |-> Len(ClaimsTable(drafts))])

\* the state returned without final_output
ExportStep_ReturnsStateOnly(run_id, timestamp) ==
    /\ pc = "export"
    /\ final_output' = final_output
    /\ audit_log' = audit_log \o <<ExportAuditEntry>>
    /\ progress' = OnStep(<<StepCall("export", local_iteration),
                            StepCall("export_done", local_iteration)>>)
    /\ pc' = "done"
    /\ UNCHANGED <<mode, channels, event, has_api_key, brand_chunks, product_chunks,
                   drafts, critic_feedback, iteration, images, critic_reply,
                   verifier_replies, decision, local_iteration,
                   index_replies, image_replies,
                   copy_text, clean_text>>

\* export_node, all of it but the bookkeeping of a second call
ExportStep(run_id, timestamp) ==
    /\ pc = "export"
    /\ final_output' = <<FinalOutput(run_id, timestamp)>>
    /\ audit_log' = audit_log \o <<ExportAuditEntry>>
    /\ progress' = OnStep(<<StepCall("export", local_iteration),
                            StepCall("export_done", local_iteration)>>)
    /\ pc' = "done"
    /\ UNCHANGED <<mode, channels, event, has_api_key, brand_chunks, product_chunks,
                   drafts, critic_feedback, iteration, images, critic_reply,
                   verifier_replies, decision, local_iteration,
                   index_replies, image_replies,
                   copy_text, clean_text>>

Export ==
    /\ \E stamp \in RunStamps : ExportStep(stamp[1], stamp[2])
    /\ UNCHANGED rerun_output

(***************************************************************************)
(* A run of the workflow                                                   *)
(***************************************************************************)
Next ==
    \/ Retrieve
    \/ Draft
    \/ DraftRaises
    \/ Critic
    \/ CriticRaises
    \/ Verify
    \/ VerifyRaises
    \/ GenerateImages
    \/ Export

Spec == Init /\ [][Next]_vars

\* every stage that is reached runs to its end: each external call returns
\* or raises, none blocks forever
FairSpec == Spec /\ WF_vars(Next)

(***************************************************************************)
(* should_continue on its own: any state it may be given                   *)
(***************************************************************************)
\* the largest iteration counter of a state handed to should_continue
MaxSyntheticIteration == 4
\* the most claims a draft of such a state holds
MaxSyntheticClaims == 2

SyntheticClaims ==
    {Claim("Claim1", "chunk_p1", TRUE), Claim("Second claim", None, FALSE)}

SyntheticFeedback ==
    {CriticFeedback(8, 8, TRUE, << >>, << >>, TRUE),
     CriticFeedback(5, 8, TRUE, <<"off brand">>, <<"rewrite">>, FALSE)}

SyntheticDraft(channel, claims) ==
    ChannelDraft(channel, "Headline", << >>, "Learn more", None, claims)

\* the drafts dicts over the channel lists, {} included
SyntheticDrafts ==
    {EmptyDict}
    \cup UNION {
        {[i \in 1..Len(chs) |-> [key |-> chs[i], val |-> SyntheticDraft(chs[i], cl[i])]] :
            cl \in [1..Len(chs) -> SeqsUpTo(SyntheticClaims, MaxSyntheticClaims)]} :
        chs \in ChannelLists}

\* the state of a run that has not started: event form filled, nothing retrieved
IdleRun ==
    /\ event = EventInput
    /\ has_api_key = FALSE
    /\ brand_chunks = FallbackChunks("brand_voice")
    /\ product_chunks = FallbackChunks("product_docs")
    /\ final_output = << >>
    /\ audit_log = << >>
    /\ images = EmptyDict
    /\ critic_reply = << >>
    /\ verifier_replies = << >>
    /\ decision = "none"
    /\ local_iteration = 0
    /\ progress = << >>
    /\ index_replies = << >>
    /\ image_replies = << >>
    /\ rerun_output = << >>

\* what every specification of a single function of the workflow leaves as
\* run_pipeline sets it
IdleRest ==
    /\ IdleRun
    /\ copy_text = << >>
    /\ clean_text = << >>

InitLoop ==
    /\ mode = "graph"
    /\ pc = "should_continue"
    /\ iteration \in 0..MaxSyntheticIteration
    /\ critic_feedback \in {<< >>} \cup {<<f>> : f \in SyntheticFeedback}
    /\ drafts \in SyntheticDrafts
    /\ channels = DictKeys(drafts)
    /\ IdleRest

\* the evaluation counting itself as a cycle
ApplyShouldContinue_CountsCall ==
    /\ pc = "should_continue"
    /\ decision' = should_continue(iteration, critic_feedback, drafts)
    /\ iteration' = iteration + 1
    /\ pc' = "decided"
    /\ UNCHANGED <<mode, channels, event, has_api_key, brand_chunks, product_chunks,
                   drafts, critic_feedback, final_output, audit_log, images,
                   critic_reply, verifier_replies, local_iteration, progress,
                   index_replies, image_replies, rerun_output,
                   copy_text, clean_text>>

ApplyShouldContinue ==
    /\ pc = "should_continue"
    /\ decision' = should_continue(iteration, critic_feedback, drafts)
    /\ pc' = "decided"
    /\ UNCHANGED <<mode, channels, event, has_api_key, brand_chunks, product_chunks,
                   drafts, critic_feedback, iteration, final_output, audit_log, images,
                   critic_reply, verifier_replies, local_iteration, progress,
                   index_replies, image_replies, rerun_output,
                   copy_text, clean_text>>

\* should_continue evaluated again on the state it was just given
ReapplyShouldContinue ==
    /\ pc = "decided"
    /\ decision' = should_continue(iteration, critic_feedback, drafts)
    /\ pc' = "decided_again"
    /\ UNCHANGED <<mode, channels, event, has_api_key, brand_chunks, product_chunks,
                   drafts, critic_feedback, iteration, final_output, audit_log, images,
                   critic_reply, verifier_replies, local_iteration, progress,
                   index_replies, image_replies, rerun_output,
                   copy_text, clean_text>>

NextLoopTwice == ApplyShouldContinue \/ ReapplyShouldContinue

SpecLoopTwice == InitLoop /\ [][NextLoopTwice]_vars

SpecLoop == InitLoop /\ [][ApplyShouldContinue]_vars

(***************************************************************************)
(* verify_node on its own, after any critic verdict, in any cycle          *)
(***************************************************************************)
\* the most claim blocks of one reply
MaxVerifyBlocks == 2

BlockUserInput == VerifierBlock("Claim1", "user_input", "false")
BlockShort == VerifierBlock("tiny!", "NONE", "false")

VerifyBlocks == {BlockSupported, BlockNone, BlockUserInput, BlockShort}

\* the state draft_node and critic_node leave in a cycle
InitVerify ==
    /\ mode \in {"graph", "callbacks"}
    /\ pc = "verify"
    /\ iteration \in 1..IterationCap
    /\ critic_feedback \in {<<f>> : f \in SyntheticFeedback}
    /\ channels \in ChannelLists
    /\ drafts = BuildDrafts(channels, [i \in 1..Len(channels) |-> DraftReplyFull], EmptyDict)
    /\ IdleRest

VerifyStage == VerifyWith(SeqsUpTo(VerifyBlocks, MaxVerifyBlocks))

SpecVerify == InitVerify /\ [][VerifyStage]_vars

(***************************************************************************)
(* The end of a cycle, after any critic verdict: verify, and when the loop *)
(* is left, generate_images and export                                     *)
(***************************************************************************)
NextFinish ==
    \/ Verify
    \/ GenerateImages
    \/ Export

SpecFinish == InitVerify /\ [][NextFinish]_vars

(***************************************************************************)
(* _extract_claims on its own: one draft, any reply                        *)
(***************************************************************************)
\* the most blocks of the reply
MaxReplyBlocks == 2

ClaimTexts == {NoLine, "tiny!", "Claim1"}
SourceTokens == {NoLine, "NONE", "none", "user_input", "USER_INPUT", "User_Input", "chunk_zz"}
SupportedTokens == {NoLine, "true", "TRUE", "false"}

Blocks ==
    {VerifierBlock(c, s, t) : c \in ClaimTexts, s \in SourceTokens, t \in SupportedTokens}

InitExtract ==
    /\ mode = "graph"
    /\ pc = "verify"
    /\ iteration = 1
    /\ critic_feedback = <<CriticFeedback(8, 8, TRUE, << >>, << >>, TRUE)>>
    /\ channels = <<"linkedin">>
    /\ drafts = BuildDrafts(channels, <<DraftReplyFull>>, EmptyDict)
    /\ IdleRest

ExtractStage == VerifyWith(SeqsUpTo(Blocks, MaxReplyBlocks))

SpecExtract == InitExtract /\ [][ExtractStage]_vars

(***************************************************************************)
(* A single-channel run against any condition of the vector store          *)
(***************************************************************************)
InitRetrieve == Init /\ channels = <<"linkedin">>

RetrieveAny == RetrieveWith(IndexOutcomes \X IndexOutcomes)

NextRetrieve ==
    \/ RetrieveAny
    \/ Draft
    \/ DraftRaises
    \/ Critic
    \/ CriticRaises
    \/ Verify
    \/ VerifyRaises
    \/ GenerateImages
    \/ Export

SpecRetrieve == InitRetrieve /\ [][NextRetrieve]_vars /\ WF_vars(NextRetrieve)

(***************************************************************************)
(* export_node on its own: any final state, exported twice                 *)
(***************************************************************************)
\* the largest iteration counter of a state handed to export_node
MaxExportIteration == 3

InitExport ==
    /\ mode = "graph"
    /\ pc = "export"
    /\ iteration \in 0..MaxExportIteration
    /\ critic_feedback \in {<< >>} \cup {<<f>> : f \in SyntheticFeedback}
    /\ drafts \in SyntheticDrafts
    /\ channels = DictKeys(drafts)
    /\ IdleRest

\* export_node called on the state, and called once more on the same state
ExportRerun ==
    \E first \in RunStamps, second \in RunStamps :
        /\ ExportStep(first[1], first[2])
        /\ rerun_output' = <<FinalOutput(second[1], second[2])>>

SpecExport == InitExport /\ [][ExportRerun]_vars

(***************************************************************************)
(* draft_node on its own: any cycle, any message from the service          *)
(***************************************************************************)
\* the most cycles completed before the Drafter runs
MaxPriorCycles == 2

AnyDrafterReplies == {DraftReplyFull, DraftReplyBare, DraftReplyEmpty, NoContent}

\* the drafts a completed cycle leaves: the Verifier's claims in place
PriorDrafts(chs) ==
    VerifiedDrafts(BuildDrafts(chs, [i \in 1..Len(chs) |-> DraftReplyFull], EmptyDict),
                   [i \in 1..Len(chs) |-> <<BlockSupported, BlockNone>>])

\* the state retrieve_node, or a completed cycle, hands to draft_node
InitDraft ==
    /\ mode \in {"graph", "callbacks"}
    /\ pc = "draft"
    /\ channels \in ChannelLists
    /\ iteration \in 0..MaxPriorCycles
    /\ IF iteration = 0
       THEN drafts = EmptyDict /\ critic_feedback = << >>
       ELSE /\ drafts = PriorDrafts(channels)
            /\ critic_feedback \in {<<f>> : f \in SyntheticFeedback}
    /\ IdleRest

DraftStage == DraftWith(AnyDrafterReplies)

SpecDraft == InitDraft /\ [][DraftStage]_vars

(***************************************************************************)
(* app.py: strip_citations on its own                                      *)
(*                                                                         *)
(* A text is a sequence of tokens: a word, a space, a full stop, or a      *)
(* citation marker [source: id] whose id is made of word characters.       *)
(***************************************************************************)
\* the most tokens of a text
MaxCopyTokens == 5

CopyTokens == {"w", " ", ".", "[c]"}

\* the number of spaces the text starts with
LeadingSpaces(text) ==
    IF \A i \in 1..Len(text) : text[i] = " " THEN Len(text)
    ELSE (CHOOSE i \in 1..Len(text) :
              text[i] # " " /\ \A j \in 1..(i - 1) : text[j] = " ") - 1

RECURSIVE RemoveCitations(_)
\* re.sub(r'\s*\[source:\s*\w+\]\.?', '', text): each marker goes with the
\* spaces before it and one full stop right after it
RemoveCitations(text) ==
    IF text = << >> THEN << >>
    ELSE LET k == LeadingSpaces(text)
         IN  IF k < Len(text) /\ text[k + 1] = "[c]"
             THEN LET rest == SubSeq(text, k + 2, Len(text))
                  IN  RemoveCitations(IF rest # << >> /\ Head(rest) = "."
                                      THEN Tail(rest) ELSE rest)
             ELSE <<Head(text)>> \o RemoveCitations(Tail(text))

RECURSIVE CollapseSpaces(_)
\* re.sub(r'  +', ' ', cleaned)
CollapseSpaces(text) ==
    IF text = << >> THEN << >>
    ELSE LET k == LeadingSpaces(text)
         IN  IF k >= 2
             THEN <<" ">> \o CollapseSpaces(SubSeq(text, k + 1, Len(text)))
             ELSE <<Head(text)>> \o CollapseSpaces(Tail(text))

Reverse(text) == [i \in 1..Len(text) |-> text[Len(text) + 1 - i]]

\* cleaned.strip()
Strip(text) ==
    SubSeq(text, LeadingSpaces(text) + 1, Len(text) - LeadingSpaces(Reverse(text)))

strip_citations(text) ==
    IF text = << >> THEN text
    ELSE Strip(CollapseSpaces(RemoveCitations(text)))

InitStrip ==
    /\ mode = "graph"
    /\ pc = "strip_citations"
    /\ channels = <<"linkedin">>
    /\ drafts = EmptyDict
    /\ critic_feedback = << >>
    /\ iteration = 0
    /\ IdleRun
    /\ copy_text \in SeqsUpTo(CopyTokens, MaxCopyTokens)
    /\ clean_text = << >>

ApplyStripCitations ==
    /\ pc = "strip_citations"
    /\ clean_text' = strip_citations(copy_text)
    /\ pc' = "stripped"
    /\ UNCHANGED <<mode, channels, event, has_api_key, brand_chunks, product_chunks,
                   drafts, critic_feedback, iteration, final_output, audit_log, images,
                   critic_reply, verifier_replies, decision, local_iteration, progress,
                   index_replies, image_replies, rerun_output, copy_text>>

SpecStrip == InitStrip /\ [][ApplyStripCitations]_vars

(***************************************************************************)
(* Properties                                                              *)
(***************************************************************************)
\* every claim of every draft, in draft order
AllClaims(dr) == FlattenSeq([i \in 1..Len(dr) |-> dr[i].val.claims])

UnsupportedCount(dr) ==
    Cardinality({i \in 1..Len(AllClaims(dr)) : ~AllClaims(dr)[i].is_supported})

\* the ids of the chunks retrieved in this run
KnownSourceIds ==
    {brand_chunks[i].id : i \in 1..Len(brand_chunks)}
    \cup {product_chunks[i].id : i \in 1..Len(product_chunks)}

NodeCount(node) == Cardinality({i \in 1..Len(audit_log) : audit_log[i].node = node})

\* the Verifier has just run: its entry is the last of the log and the
\* stage after it has not run yet
JustVerified ==
    /\ pc \in {"draft", "generate_images"}
    /\ audit_log # << >>
    /\ audit_log[Len(audit_log)].node = "verify"

\* C1: in every reachable state of a run, graph-driven or callback-driven,
\* the iteration counter is at most 3 and the Drafter has run at most 3 times.
C1_IterationAtMostThree ==
    /\ iteration <= 3
    /\ NodeCount("draft") <= 3

\* a third cycle that ended with an unsupported claim and went on to the
\* Image stage all the same
C1_Witness ==
    /\ iteration = 3
    /\ pc = "generate_images"
    /\ NodeCount("draft") = 3
    /\ UnsupportedCount(drafts) > 0

\* C2: every run in which no external call raises reaches the Exporter and
\* ends with final_output set, whatever the verdicts of each cycle were.
C2_RunEndsExported ==
    <>(pc = "aborted") \/ <>(pc = "done" /\ final_output # << >>)

\* a run that used all three cycles, each ending with an unsupported claim,
\* and was exported
C2_Witness ==
    /\ pc = "done"
    /\ final_output # << >>
    /\ iteration = 3
    /\ NodeCount("verify") = 3
    /\ \A i \in 1..Len(audit_log) :
          audit_log[i].node = "verify" => audit_log[i].details.unsupported_claims > 0

\* C3: should_continue is the first-match table: finalize at iteration >= 3;
\* else retry when the critic feedback exists and did not pass; else retry
\* when any claim of any draft is unsupported; else finalize.
C3_DecisionTable ==
    pc = "decided" =>
        LET capped == iteration >= 3
            critic_failed == critic_feedback # << >> /\ critic_feedback[1].passed = FALSE
            unsupported == UnsupportedCount(drafts) > 0
        IN  /\ decision \in {"draft", "export"}
            /\ capped => decision = "export"
            /\ (~capped /\ critic_failed) => decision = "draft"
            /\ (~capped /\ ~critic_failed /\ unsupported) => decision = "draft"
            /\ (~capped /\ ~critic_failed /\ ~unsupported) => decision = "export"

\* at the cap with a failed critic and an unsupported claim: finalize
C3_Witness ==
    /\ pc = "decided"
    /\ iteration = 3
    /\ critic_feedback # << >>
    /\ ~critic_feedback[1].passed
    /\ UnsupportedCount(drafts) > 0
    /\ decision = "export"

\* the critic's reply of this cycle reports 5, 8 and length_ok = true
ScenarioBReply ==
    /\ critic_reply # << >>
    /\ critic_reply[1].brand_voice_score = 5
    /\ critic_reply[1].cta_clarity_score = 8
    /\ critic_reply[1].length_ok

\* C4: when the critic's reply of the cycle reports brand_voice_score = 5,
\* cta_clarity_score = 8 and length_ok = true, and the cap is not reached,
\* the stage after the Verifier is the Drafter, not the Image stage.
C4_ScenarioBRetries ==
    (JustVerified /\ ScenarioBReply /\ iteration < 3) => pc = "draft"

\* C5: the CriticFeedback holds the scores and the length flag the reply
\* reports, and passed = (both scores >= 7 and length_ok) of those values,
\* whatever the reply's PASSED line says.
C5_FeedbackFromReply ==
    critic_reply # << >> =>
        /\ critic_feedback # << >>
        /\ critic_feedback[1].brand_voice_score = critic_reply[1].brand_voice_score
        /\ critic_feedback[1].cta_clarity_score = critic_reply[1].cta_clarity_score
        /\ critic_feedback[1].length_ok = critic_reply[1].length_ok
        /\ critic_feedback[1].passed =
              (/\ critic_reply[1].brand_voice_score >= 7
               /\ critic_reply[1].cta_clarity_score >= 7
               /\ critic_reply[1].length_ok)

\* C6: every claim of every draft is supported if and only if its source is
\* the id of a chunk retrieved in this run or "user_input".
C6_SupportedIffKnownSource ==
    \A i \in 1..Len(AllClaims(drafts)) :
        AllClaims(drafts)[i].is_supported
            <=> AllClaims(drafts)[i].source_chunk_id \in KnownSourceIds \cup {"user_input"}

\* the Verifier has parsed the reply for the one draft
Extracted == pc # "verify" /\ Len(verifier_replies) = 1 /\ Len(drafts) = 1

\* C7: a claim block with no SOURCE field ends unsupported, even with
\* SUPPORTED: true.  (Stated for a reply whose blocks all lack the field.)
C7_NoSourceUnsupported ==
    (Extracted /\ \A k \in 1..Len(verifier_replies[1]) :
                      verifier_replies[1][k].source = NoLine)
    => \A j \in 1..Len(drafts[1].val.claims) : ~drafts[1].val.claims[j].is_supported

\* C8: a claim block whose SOURCE is NONE in any letter case yields a claim
\* with no source and is_supported = false, whatever its SUPPORTED line says.
\* (Stated per claim text: when every block with that text names NONE, every
\* claim with that text is such a claim.)
C8_SourceNoneUnsupported ==
    Extracted =>
        \A t \in ClaimTexts \ {NoLine} :
            (\A k \in 1..Len(verifier_replies[1]) :
                verifier_replies[1][k].claim = t
                    => /\ verifier_replies[1][k].source # NoLine
                       /\ Upper(verifier_replies[1][k].source) = "NONE")
            => \A j \in 1..Len(drafts[1].val.claims) :
                  drafts[1].val.claims[j].text = t
                      => /\ drafts[1].val.claims[j].source_chunk_id = None
                         /\ ~drafts[1].val.claims[j].is_supported

\* a block "SOURCE: none / SUPPORTED: TRUE" gave an unsupported claim
C8_Witness ==
    /\ Extracted
    /\ verifier_replies[1] = <<VerifierBlock("Claim1", "none", "TRUE")>>
    /\ drafts[1].val.claims = <<Claim("Claim1", None, FALSE)>>

\* the audit entry of the Verifier counts the claims of all drafts
VerifyCountsRight ==
    /\ audit_log[Len(audit_log)].details.total_claims = Len(AllClaims(drafts))
    /\ audit_log[Len(audit_log)].details.unsupported_claims = UnsupportedCount(drafts)

\* three claims extracted, exactly one from a SOURCE: NONE block, the
\* other two supported
ScenarioC ==
    /\ Len(AllClaims(drafts)) = 3
    /\ Cardinality({i \in 1..3 : AllClaims(drafts)[i].source_chunk_id = None}) = 1
    /\ Cardinality({i \in 1..3 : AllClaims(drafts)[i].is_supported}) = 2

\* C9 as stated: the Verifier's entry counts the unsupported and all claims
\* over all drafts; with 3 claims, one of them SOURCE: NONE, it records
\* unsupported_claims = 1 and the loop controller chooses retry.
C9_UnsupportedAlwaysRetries ==
    JustVerified =>
        /\ VerifyCountsRight
        /\ ScenarioC =>
              /\ audit_log[Len(audit_log)].details.unsupported_claims = 1
              /\ decision = "draft"

\* C9 amended: the same counts; the loop controller chooses retry for any
\* unsupported claim, whatever the critic's passed flag, when the iteration
\* counter is below 3, and finalizes when it is 3.
C9_UnsupportedRetriesBelowCap ==
    JustVerified =>
        /\ VerifyCountsRight
        /\ ScenarioC => audit_log[Len(audit_log)].details.unsupported_claims = 1
        /\ (UnsupportedCount(drafts) > 0 /\ iteration < 3) =>
              (decision = "draft" /\ pc = "draft")
        /\ iteration >= 3 => (decision = "export" /\ pc = "generate_images")

\* scenario C in the second cycle after a passing critic: retry
C9_Witness ==
    /\ JustVerified
    /\ ScenarioC
    /\ iteration = 2
    /\ critic_feedback[1].passed
    /\ audit_log[Len(audit_log)].details.unsupported_claims = 1
    /\ decision = "draft"

\* C10: every stage that runs to its end appends exactly one entry, its own,
\* to the audit log and leaves the entries before it as they were; a run
\* that aborts changes nothing.
C10_AuditAppendOnly ==
    [][/\ Len(audit_log') >= Len(audit_log)
       /\ SubSeq(audit_log', 1, Len(audit_log)) = audit_log
       /\ pc' = "aborted" => audit_log' = audit_log
       /\ (pc' # pc /\ pc' # "aborted") =>
             /\ Len(audit_log') = Len(audit_log) + 1
             /\ audit_log'[Len(audit_log')].node = pc]_vars

\* a full run of three cycles whose Image stage was skipped: 12 entries
C10_Witness ==
    /\ pc = "done"
    /\ Len(audit_log) = 12
    /\ \E i \in 1..Len(audit_log) : audit_log[i].action = "skipped"

\* the nodes of the audit log's entries, in order
NodeSeq == [i \in 1..Len(audit_log) |-> audit_log[i].node]

\* C11: the iteration counter equals the number of 'draft' entries of the
\* audit log in every state; only the Drafter changes it, and each Drafter
\* run that completes adds exactly 1.
C11_IterationCountsDrafts ==
    /\ [](iteration = NodeCount("draft"))
    /\ [][/\ iteration' # iteration => (pc = "draft" /\ iteration' = iteration + 1)
          /\ (pc = "draft" /\ pc' = "critic") => iteration' = iteration + 1]_vars

\* the second Drafter run has completed
C11_Witness ==
    /\ pc = "critic"
    /\ iteration = 2
    /\ NodeCount("draft") = 2
    /\ audit_log[Len(audit_log)].details.iteration = 2

RECURSIVE Cycles(_)
\* k repetitions of draft, critic, verify
Cycles(k) == IF k = 0 THEN << >> ELSE <<"draft", "critic", "verify">> \o Cycles(k - 1)

\* the stages of a completed run of k cycles
RunOrder(k) == <<"retrieve">> \o Cycles(k) \o <<"generate_images", "export">>

IsPrefix(a, b) == Len(a) <= Len(b) /\ SubSeq(b, 1, Len(a)) = a

\* the edges between stages; a raised completion call leaves the graph
StageEdges ==
    {<<"retrieve", "draft">>, <<"draft", "critic">>, <<"critic", "verify">>,
     <<"verify", "draft">>, <<"verify", "generate_images">>,
     <<"generate_images", "export">>, <<"export", "done">>,
     <<"draft", "aborted">>, <<"critic", "aborted">>, <<"verify", "aborted">>}

\* C12: a completed run executed retrieve, then k times (draft, critic,
\* verify) with 1 <= k <= 3, then generate_images, then export, and its audit
\* log's nodes are exactly that sequence; a run in progress has executed a
\* prefix of it; the only stage with two successors is verify.
C12_StageOrder ==
    /\ [](pc = "done" => (iteration \in 1..3 /\ NodeSeq = RunOrder(iteration)))
    /\ [](IsPrefix(NodeSeq, RunOrder(iteration)))
    /\ [][pc' # pc => <<pc, pc'>> \in StageEdges]_vars

\* a completed run of two cycles
C12_Witness ==
    /\ pc = "done"
    /\ iteration = 2
    /\ NodeSeq = <<"retrieve", "draft", "critic", "verify", "draft", "critic", "verify",
                  "generate_images", "export">>

\* C13: final_output is None until the Exporter has run and set from then on;
\* only the Exporter's step writes it, it writes it once, and no step
\* follows the Exporter's.
C13_FinalOutputSetOnce ==
    /\ [](pc # "done" => final_output = << >>)
    /\ [](pc = "done" => final_output # << >>)
    /\ [][final_output' # final_output =>
             (pc = "export" /\ pc' = "done" /\ final_output = << >>)]_vars
    /\ [][pc = "done" => UNCHANGED vars]_vars

\* a run exported after a single cycle
C13_Witness ==
    /\ pc = "done"
    /\ iteration = 1
    /\ final_output # << >>
    /\ final_output[1].audit_log.run_id = "run_b"
    /\ NodeCount("export") = 1

\* C14: no step changes the input fields: the event fields and the channel
\* list are in every state what run_pipeline was given.
C14_InputsImmutable ==
    /\ [](event = EventInput /\ channels \in ChannelLists)
    /\ [][event' = event /\ channels' = channels]_vars

\* a completed run of three cycles over two channels, inputs as given
C14_Witness ==
    /\ pc = "done"
    /\ iteration = 3
    /\ event = EventInput
    /\ channels = <<"email", "web">>
    /\ final_output[1].audit_log.input.channels = <<"email", "web">>
    /\ final_output[1].audit_log.input.key_messages = EventInput.key_messages

\* C15: a Drafter, Critic or Verifier step that ends without its audit
\* entry (its completion call raised) ends the run: no step follows it and
\* final_output stays None.
C15_RaiseAborts ==
    /\ [](pc = "aborted" => final_output = << >>)
    /\ [][(pc \in {"draft", "critic", "verify"} /\ pc' # pc /\ audit_log' = audit_log)
             => pc' = "aborted"]_vars
    /\ [][pc = "aborted" => UNCHANGED vars]_vars

\* the Verifier's call raised in the second cycle
C15_Witness ==
    /\ pc = "aborted"
    /\ iteration = 2
    /\ NodeSeq = <<"retrieve", "draft", "critic", "verify", "draft", "critic">>
    /\ final_output = << >>

ChunkIds(chunks) == [i \in 1..Len(chunks) |-> chunks[i].id]

\* C16: each of the Retriever's two queries, whatever the other did, gives
\* exactly its collection's fallback set when the index is empty or raises
\* (brand_voice: fallback_brand_1, fallback_brand_2; product_docs:
\* fallback_product_1) and the index's hits otherwise; the Retriever's step
\* always ends in the Drafter, and the run goes on to the Exporter unless a
\* completion call raises.
C16_RetrievalFailsOpen ==
    /\ [](index_replies # << >> =>
            /\ index_replies[1] \in {"empty", "raises"}
                  => ChunkIds(brand_chunks) = <<"fallback_brand_1", "fallback_brand_2">>
            /\ index_replies[2] \in {"empty", "raises"}
                  => ChunkIds(product_chunks) = <<"fallback_product_1">>
            /\ index_replies[1] = "hits" => brand_chunks = IndexHits("brand_voice")
            /\ index_replies[2] = "hits" => product_chunks = IndexHits("product_docs"))
    /\ [][(pc = "retrieve" /\ pc' # pc) => (pc' = "draft" /\ index_replies' # << >>)]_vars
    /\ (pc = "draft" /\ iteration = 0)
          ~> ((pc = "done" /\ final_output # << >>) \/ pc = "aborted")

\* the brand query raised, the product collection was empty, the run was
\* exported with both fallback sets counted
C16_Witness ==
    /\ pc = "done"
    /\ index_replies = <<"raises", "empty">>
    /\ ChunkIds(brand_chunks) = <<"fallback_brand_1", "fallback_brand_2">>
    /\ ChunkIds(product_chunks) = <<"fallback_product_1">>
    /\ final_output[1].audit_log.sources_retrieved = [brand_chunks |-> 2, product_chunks |-> 1]

\* C17: with no image-service credential the Image stage ends in the
\* Exporter with an empty image map, no generation call made and exactly one
\* audit entry, whose action is "skipped"; the exported output has no image.
C17_NoCredentialSkips ==
    /\ []((pc \in {"export", "done"} /\ ~has_api_key) =>
            /\ images = EmptyDict
            /\ image_replies = << >>
            /\ NodeCount("generate_images") = 1
            /\ \A i \in 1..Len(audit_log) :
                  audit_log[i].node = "generate_images" => audit_log[i].action = "skipped")
    /\ []((pc = "done" /\ ~has_api_key) => final_output[1].images = EmptyDict)
    /\ [][(pc = "generate_images" /\ ~has_api_key /\ pc' # pc) =>
             /\ pc' = "export"
             /\ Len(audit_log') = Len(audit_log) + 1
             /\ audit_log'[Len(audit_log')].action = "skipped"]_vars

\* a one-cycle run without credential, exported
C17_Witness ==
    /\ pc = "done"
    /\ ~has_api_key
    /\ iteration = 1
    /\ images = EmptyDict
    /\ audit_log[Len(audit_log) - 1].action = "skipped"
    /\ final_output[1].images = EmptyDict

\* the channels named in the error list of an Image-stage audit entry
ErrorChannels(entry) ==
    {entry.details.errors[k].channel : k \in 1..Len(entry.details.errors)}

\* C18: when the Image stage has run with a credential, every draft's
\* channel was attempted; a channel whose call raised has no image and is in
\* the audit entry's error list, a channel whose call returned an image has
\* it and is not in the list, and the stage ended in the Exporter.
C18_ImageFailureIsolated ==
    /\ []((pc = "export" /\ has_api_key) =>
            LET entry == audit_log[Len(audit_log)]
            IN  /\ Len(image_replies) = Len(drafts)
                /\ entry.details.channels_requested = DictKeys(drafts)
                /\ entry.details.images_generated = Len(images)
                /\ \A i \in 1..Len(drafts) :
                      /\ image_replies[i] = "raises" =>
                            /\ ~DictHas(images, drafts[i].key)
                            /\ drafts[i].key \in ErrorChannels(entry)
                      /\ image_replies[i] = "image" =>
                            /\ DictHas(images, drafts[i].key)
                            /\ drafts[i].key \notin ErrorChannels(entry)
                      /\ image_replies[i] = "no_image" =>
                            /\ ~DictHas(images, drafts[i].key)
                            /\ drafts[i].key \notin ErrorChannels(entry))
    /\ [][(pc = "generate_images" /\ pc' # pc) => pc' = "export"]_vars

\* the first channel's call raised, the second channel's image was kept
C18_Witness ==
    /\ pc = "export"
    /\ has_api_key
    /\ image_replies = <<"raises", "image">>
    /\ DictKeys(images) = <<"web">>
    /\ ErrorChannels(audit_log[Len(audit_log)]) = {"email"}

\* C19: the exported scorecard holds the state's iteration counter and, from
\* the state's critic feedback, its two scores and its passed flag; with no
\* feedback in the state both scores are null and passed is false.
C19_ScorecardFromFeedback ==
    pc = "done" =>
        LET scorecard == final_output[1].scorecard
        IN  /\ scorecard.iterations = iteration
            /\ critic_feedback = << >> =>
                  /\ scorecard.brand_voice_score = << >>
                  /\ scorecard.cta_clarity_score = << >>
                  /\ scorecard.passed = FALSE
            /\ critic_feedback # << >> =>
                  /\ scorecard.brand_voice_score = <<critic_feedback[1].brand_voice_score>>
                  /\ scorecard.cta_clarity_score = <<critic_feedback[1].cta_clarity_score>>
                  /\ scorecard.passed = critic_feedback[1].passed

\* a state with no critic feedback, exported
C19_Witness ==
    /\ pc = "done"
    /\ critic_feedback = << >>
    /\ iteration = 0
    /\ final_output[1].scorecard.brand_voice_score = << >>
    /\ ~final_output[1].scorecard.passed

\* C20: two export_node calls on the same state give outputs that agree in
\* every field other than the run id and the timestamp.
C20_ExportRepeatable ==
    (pc = "done" /\ rerun_output # << >>) =>
        LET first == final_output[1]
            second == rerun_output[1]
        IN  /\ first.content = second.content
            /\ first.images = second.images
            /\ first.relevant_urls = second.relevant_urls
            /\ first.scorecard = second.scorecard
            /\ first.claims_table = second.claims_table
            /\ first.audit_log.input = second.audit_log.input
            /\ first.audit_log.sources_retrieved = second.audit_log.sources_retrieved
            /\ first.audit_log.iterations = second.audit_log.iterations

\* two exports of a state with claims, drawn with different run ids
C20_Witness ==
    /\ pc = "done"
    /\ rerun_output # << >>
    /\ rerun_output[1].audit_log.run_id # final_output[1].audit_log.run_id
    /\ rerun_output[1].audit_log.timestamp # final_output[1].audit_log.timestamp
    /\ Len(final_output[1].claims_table) >= 2

\* the rows of a claims table that carry the given channel, in table order
RowsOf(table, channel) ==
    LET OfChannel(row) == row.channel = channel
    IN  SelectSeq(table, OfChannel)

\* the position of a channel in the channel list
ChannelIndex(channel) == CHOOSE i \in 1..Len(channels) : channels[i] = channel

\* C21: the exported claims table has one row per claim of every draft; the
\* rows of a channel are that draft's claims in the draft's order, each with
\* the claim's text, source and support flag; the channels follow one
\* another in the order of the channel list.
C21_ClaimsTableRows ==
    pc = "done" =>
        LET table == final_output[1].claims_table
        IN  /\ Len(table) = SumSeq([i \in 1..Len(drafts) |-> Len(drafts[i].val.claims)])
            /\ \A i \in 1..Len(drafts) :
                  LET rows == RowsOf(table, drafts[i].key)
                      claims == drafts[i].val.claims
                  IN  /\ Len(rows) = Len(claims)
                      /\ \A j \in 1..Len(claims) :
                            /\ rows[j].claim = claims[j].text
                            /\ rows[j].source = claims[j].source_chunk_id
                            /\ rows[j].is_supported = claims[j].is_supported
            /\ \A k \in 1..Len(table) : \E i \in 1..Len(channels) : channels[i] = table[k].channel
            /\ \A k, l \in 1..Len(table) :
                  k < l => ChannelIndex(table[k].channel) <= ChannelIndex(table[l].channel)

\* two channels with two claims each: four rows, email's before web's
C21_Witness ==
    /\ pc = "done"
    /\ channels = <<"email", "web">>
    /\ Len(final_output[1].claims_table) = 4
    /\ [k \in 1..4 |-> final_output[1].claims_table[k].channel] = <<"email", "email", "web", "web">>
    /\ final_output[1].claims_table[1].claim # final_output[1].claims_table[2].claim

\* C22: the audit section of the FinalOutput holds every audit entry written
\* before the Exporter ran, in order: retrieve, the draft/critic/verify
\* cycles, generate_images; its retrieval counts are the lengths of the two
\* chunk lists, its input snapshot the inputs of the run, and its number of
\* 'draft' entries equals scorecard.iterations.
C22_AuditSectionComplete ==
    pc = "done" =>
        LET section == final_output[1].audit_log
            logged == section.iterations
        IN  /\ logged = SubSeq(audit_log, 1, Len(audit_log) - 1)
            /\ [i \in 1..Len(logged) |-> logged[i].node]
                  = <<"retrieve">> \o Cycles(iteration) \o <<"generate_images">>
            /\ section.sources_retrieved.brand_chunks = Len(brand_chunks)
            /\ section.sources_retrieved.product_chunks = Len(product_chunks)
            /\ section.input = [event_title |-> EventInput.event_title,
                                event_description |-> EventInput.event_description,
                                event_date |-> EventInput.event_date,
                                target_audience |-> EventInput.target_audience,
                                key_messages |-> EventInput.key_messages,
                                channels |-> channels]
            /\ Cardinality({i \in 1..Len(logged) : logged[i].node = "draft"})
                  = final_output[1].scorecard.iterations

\* a run of two cycles on the index's own chunks: 8 entries in the section
C22_Witness ==
    /\ pc = "done"
    /\ iteration = 2
    /\ Len(final_output[1].audit_log.iterations) = 8
    /\ final_output[1].audit_log.sources_retrieved = [brand_chunks |-> 1, product_chunks |-> 1]
    /\ final_output[1].scorecard.iterations = 2

\* C23: the two drivers take the same branch after every Verifier run: what
\* the graph's conditional edge and what the callback loop's break test
\* select from the state agree, and that is the stage executed next.  All
\* other stages and edges are shared, so runs with and without a callback
\* that get the same replies pass through the same stages and states and
\* export the same output.
C23_CallbackHasNoControl ==
    [][(pc = "verify" /\ pc' \notin {"verify", "aborted"}) =>
          /\ AfterVerify("graph", decision', iteration')
                = AfterVerify("callbacks", decision', iteration')
          /\ pc' = AfterVerify("graph", decision', iteration')
          /\ decision' = should_continue(iteration', critic_feedback', drafts')]_vars

\* a callback-driven run leaving the loop at the cap with an unsupported claim
C23_Witness ==
    /\ mode = "callbacks"
    /\ JustVerified
    /\ iteration = 3
    /\ decision = "export"
    /\ UnsupportedCount(drafts) > 0
    /\ pc = "generate_images"
    /\ Len(progress) > 0

\* the stages of the workflow
Stages == {"retrieve", "draft", "critic", "verify", "generate_images", "export"}

\* the step name of the callback made after a stage
DoneName(stage) ==
    CASE stage = "retrieve" -> "retrieve_done"
      [] stage = "draft" -> "draft_done"
      [] stage = "critic" -> "critic_done"
      [] stage = "verify" -> "verify_done"
      [] stage = "generate_images" -> "generate_images_done"
      [] stage = "export" -> "export_done"

\* the number of callback invocations made with the given step name
CallCount(step) == Cardinality({k \in 1..Len(progress) : progress[k].step = step})

\* C24: in a completed callback-driven run the callback was invoked once
\* before and once after every execution of every stage.
C24_CallbackAroundEveryStage ==
    (mode = "callbacks" /\ pc = "done") =>
        \A stage \in Stages :
            /\ CallCount(stage) = NodeCount(stage)
            /\ CallCount(DoneName(stage)) = NodeCount(stage)

\* C25: every callback invocation carries the state's iteration counter as
\* it is at the invocation: a stage's 'before' call the counter before the
\* stage's update, its 'after' call the counter after it.
C25_CallbackGetsCurrentIteration ==
    [][mode = "callbacks" =>
          \A k \in (Len(progress) + 1)..Len(progress') :
              progress'[k].iteration =
                  IF progress'[k].step \in {DoneName(stage) : stage \in Stages}
                  THEN iteration' ELSE iteration]_vars

\* the text without its spaces, and without its citation markers
TextAndPunctuation(text) ==
    LET Kept(token) == token \notin {" ", "[c]"}
    IN  SelectSeq(text, Kept)

\* C26: strip_citations leaves no citation marker and no two spaces in a
\* row, and keeps every word and every full stop of the text, in order.
C26_StripKeepsTextAndPunctuation ==
    pc = "stripped" =>
        /\ \A i \in 1..Len(clean_text) : clean_text[i] # "[c]"
        /\ \A i \in 1..(Len(clean_text) - 1) : ~(clean_text[i] = " " /\ clean_text[i + 1] = " ")
        /\ TextAndPunctuation(clean_text) = TextAndPunctuation(copy_text)

\* C27: whenever the state holds critic feedback, both its scores lie in
\* 0..10, and if it passed, both scores are at least 7 and length_ok is true.
C27_PassedImpliesScores ==
    critic_feedback # << >> =>
        /\ critic_feedback[1].brand_voice_score \in 0..10
        /\ critic_feedback[1].cta_clarity_score \in 0..10
        /\ critic_feedback[1].passed =>
              /\ critic_feedback[1].brand_voice_score >= 7
              /\ critic_feedback[1].cta_clarity_score >= 7
              /\ critic_feedback[1].length_ok

\* passing feedback held in the second cycle, after a reply that scored 5
C27_Witness ==
    /\ pc = "verify"
    /\ iteration = 2
    /\ critic_feedback # << >>
    /\ critic_feedback[1].passed
    /\ critic_reply # << >>
    /\ critic_reply[1].brand_voice_score = 5

\* C28: whatever message the completion service returns for a channel, the
\* Drafter ends in the Critic with one draft per requested channel, each
\* with a body and a call to action.
C28_DrafterNeverRaises ==
    pc # "draft" =>
        /\ pc = "critic"
        /\ DictKeys(drafts) = channels
        /\ \A i \in 1..Len(drafts) :
              /\ drafts[i].val.cta # NoLine
              /\ drafts[i].val.headline # NoLine
              /\ drafts[i].val.subject_line # NoLine

IsDraftEntry(entry) == entry.node = "draft"

\* the 'draft' entries of the audit log, in order
DraftEntries(log) == SelectSeq(log, IsDraftEntry)

\* C29: the k-th Drafter run of a run logs iteration k, the counter after its
\* increment, and had_feedback exactly when k > 1; a Drafter run that logs
\* had_feedback reads the feedback the Critic stored in the cycle before it,
\* and the first run finds none.
C29_FeedbackOnlyOnRepeat ==
    /\ [](LET entries == DraftEntries(audit_log)
          IN  \A k \in 1..Len(entries) :
                 /\ entries[k].details.iteration = k
                 /\ entries[k].details.had_feedback = (k > 1))
    /\ [][(pc = "draft" /\ pc' = "critic") =>
            LET entry == audit_log'[Len(audit_log')]
            IN  /\ entry.node = "draft"
                /\ entry.details.iteration = iteration'
                /\ iteration' = iteration + 1
                /\ entry.details.had_feedback = (critic_feedback # << >>)
                /\ (critic_feedback # << >>) = (iteration >= 1)
                /\ critic_feedback # << >> =>
                      /\ audit_log[Len(audit_log)].node = "verify"
                      /\ audit_log[Len(audit_log) - 1]
                            = CriticAuditEntry(critic_feedback[1])]_vars

\* the third Drafter run has just logged its entry: (1, no feedback),
\* (2, feedback), (3, feedback)
C29_Witness ==
    /\ pc = "critic"
    /\ iteration = 3
    /\ LET entries == DraftEntries(audit_log)
       IN  /\ Len(entries) = 3
           /\ ~entries[1].details.had_feedback
           /\ entries[2].details.had_feedback
           /\ entries[3].details.had_feedback

\* every claim held by the drafts of a map
ClaimsHeld(dr) == UNION {SeqRange(dr[i].val.claims) : i \in 1..Len(dr)}

\* C30: a Drafter run replaces the drafts map: its keys are the requested
\* channels, in their order; the draft of a channel is what the parser makes
\* of one reply of this iteration for that channel; and no claim of the
\* previous iteration's drafts, the Verifier's lists, is left in it.
C30_DraftsReplacedWholesale ==
    [][(pc = "draft" /\ pc' = "critic") =>
          /\ DictKeys(drafts') = channels
          /\ \A i \in 1..Len(drafts') :
                /\ drafts'[i].val.channel = channels[i]
                /\ drafts'[i].val \in {_parse_draft_response(channels[i], reply) :
                                          reply \in DrafterReplies}
          /\ ClaimsHeld(drafts') \cap ClaimsHeld(drafts) = {}]_vars

\* the second Drafter run of a two-channel run has replaced drafts whose
\* claims the Verifier had rewritten
C30_Witness ==
    /\ pc = "critic"
    /\ iteration = 2
    /\ channels = <<"email", "web">>
    /\ audit_log[Len(audit_log) - 1].node = "verify"
    /\ audit_log[Len(audit_log) - 1].details.total_claims >= 2
    /\ DictKeys(drafts) = channels
    /\ ClaimsHeld(drafts) # {}

\* C31: verify_node replaces the claims of each draft with the claims parsed
\* from that draft's verification reply, and changes nothing else: the keys
\* of drafts, each draft's channel, headline, subject line, body and cta, the
\* iteration counter, the critic feedback and the retrieved chunks.
C31_VerifierReplacesOnlyClaims ==
    [][(pc = "verify" /\ pc' # "verify") =>
          /\ DictKeys(drafts') = DictKeys(drafts)
          /\ \A i \in 1..Len(drafts) :
                /\ drafts'[i].val.claims = _extract_claims(verifier_replies'[i])
                /\ drafts'[i].val = [drafts[i].val EXCEPT !.claims = drafts'[i].val.claims]
                /\ drafts'[i].val.channel = drafts[i].val.channel
                /\ drafts'[i].val.headline = drafts[i].val.headline
                /\ drafts'[i].val.subject_line = drafts[i].val.subject_line
                /\ drafts'[i].val.body = drafts[i].val.body
                /\ drafts'[i].val.cta = drafts[i].val.cta
          /\ ClaimsHeld(drafts') \cap ClaimsHeld(drafts) = {}
          /\ UNCHANGED <<iteration, critic_feedback, brand_chunks, product_chunks>>]_vars

\* two drafts verified: the first reply held one supported claim, the
\* second none, and the Drafter's two claims per draft are gone
C31_Witness ==
    /\ pc # "verify"
    /\ channels = <<"email", "web">>
    /\ verifier_replies = <<<<BlockSupported>>, << >>>>
    /\ drafts[1].val.claims = <<Claim("Claim1", "fallback_product_1", TRUE)>>
    /\ drafts[2].val.claims = << >>
    /\ drafts[1].val.headline = "Headline"
    /\ drafts[2].val.cta = "Register now"

\* a block whose CLAIM text has six characters or more
HasLongText(block) == block.claim # NoLine /\ StrLen(block.claim) >= 6

\* C32: _extract_claims drops exactly the blocks whose claim text has fewer
\* than 6 characters: the claims of the draft are the texts of length >= 6,
\* one per block and in the blocks' order; a text of length <= 5 is in no
\* claim, is not counted as unsupported, and does not cause a retry.
C32_ShortClaimsDiscarded ==
    [][(pc = "verify" /\ pc' # "verify") =>
          LET reply == verifier_replies'[1]
              long == SelectSeq(reply, HasLongText)
              claims == drafts'[1].val.claims
              entry == audit_log'[Len(audit_log')]
          IN  /\ [j \in 1..Len(claims) |-> claims[j].text]
                    = [j \in 1..Len(long) |-> long[j].claim]
              /\ \A j \in 1..Len(claims) : StrLen(claims[j].text) >= 6
              /\ entry.details.total_claims = Len(long)
              /\ \A k \in 1..Len(entry.details.unsupported_details) :
                    StrLen(entry.details.unsupported_details[k].claim) >= 6
              /\ long = << >> => decision' = "export"]_vars

\* a reply of two blocks: a 5-character text marked unsupported, dropped,
\* then a 6-character text, kept; no retry follows
C32_Witness ==
    /\ pc # "verify"
    /\ verifier_replies = <<<<VerifierBlock("tiny!", "NONE", "false"),
                              VerifierBlock("Claim1", "chunk_zz", "true")>>>>
    /\ StrLen("tiny!") = 5
    /\ StrLen("Claim1") = 6
    /\ drafts[1].val.claims = <<Claim("Claim1", "chunk_zz", TRUE)>>
    /\ decision = "export"

\* C33: evaluating should_continue changes no field of the pipeline state
\* (iteration, drafts and their claims, critic feedback, audit log, inputs,
\* chunks, images, final output), and a second evaluation on the same state
\* returns the decision of the first.
C33_ShouldContinuePure ==
    [][(pc \in {"should_continue", "decided"} /\ pc' # pc) =>
          /\ UNCHANGED <<iteration, drafts, critic_feedback, audit_log, channels, event,
                         brand_chunks, product_chunks, images, final_output>>
          /\ decision' \in {"draft", "export"}
          /\ decision' = should_continue(iteration', critic_feedback', drafts')
          /\ pc = "decided" => decision' = decision]_vars

\* evaluated twice below the cap on drafts holding an unsupported claim:
\* "draft" both times, the counter still 2
C33_Witness ==
    /\ pc = "decided_again"
    /\ decision = "draft"
    /\ iteration = 2
    /\ critic_feedback # << >>
    /\ critic_feedback[1].passed
    /\ \E i \in 1..Len(drafts) : \E j \in 1..Len(drafts[i].val.claims) :
          ~drafts[i].val.claims[j].is_supported

\* the number of entries a stage has put in the audit log
EntriesBy(log, node) == Cardinality({i \in 1..Len(log) : log[i].node = node})

\* C34: the image map is empty until the Image stage has run, only the
\* Image stage writes it and it runs at most once, the Exporter puts the
\* map unchanged into the FinalOutput, and its keys are always channels
\* that have a draft.
C34_ImagesPopulatedOnce ==
    /\ [](/\ EntriesBy(audit_log, "generate_images") <= 1
          /\ EntriesBy(audit_log, "generate_images") = 0 => images = EmptyDict
          /\ SeqRange(DictKeys(images)) \subseteq SeqRange(DictKeys(drafts))
          /\ pc = "done" => final_output[1].images = images)
    /\ [][/\ images' # images => pc = "generate_images"
          /\ pc = "export" => images' = images]_vars

\* a two-channel run where the call for "email" failed and the one for
\* "web" returned an image: the exported map holds "web" only
C34_Witness ==
    /\ pc = "done"
    /\ channels = <<"email", "web">>
    /\ image_replies = <<"raises", "image">>
    /\ DictKeys(images) = <<"web">>
    /\ final_output[1].images = images
    /\ DictKeys(drafts) = channels

\* every Verifier pass so far has left at least one unsupported claim
EveryPassUnsupported ==
    \A i \in 1..Len(audit_log) :
        audit_log[i].node = "verify" => audit_log[i].details.unsupported_claims > 0

IsUnsupportedRow(row) == ~row.is_supported

\* C35: a run whose every Verifier pass leaves an unsupported claim leaves
\* the loop only after exactly 3 Drafter runs, then goes through the Image
\* stage and the Exporter, and the exported claims table holds the
\* unsupported claims the third pass recorded; unless a call raises, such a
\* run does end exported.
C35_CapEndsFailingRun ==
    /\ []((EveryPassUnsupported /\ pc \in {"generate_images", "export", "done"}) =>
            /\ NodeCount("draft") = 3
            /\ NodeCount("verify") = 3
            /\ iteration = 3)
    /\ []((EveryPassUnsupported /\ pc = "done") =>
            LET rows == SelectSeq(final_output[1].claims_table, IsUnsupportedRow)
                third == audit_log[Len(audit_log) - 2]
            IN  /\ third.node = "verify"
                /\ audit_log[Len(audit_log) - 1].node = "generate_images"
                /\ audit_log[Len(audit_log)].node = "export"
                /\ rows # << >>
                /\ [k \in 1..Len(rows) |-> [channel |-> rows[k].channel,
                                            claim |-> rows[k].claim]]
                      = third.details.unsupported_details)
    /\ (<>(pc = "aborted") \/ <>(~EveryPassUnsupported)
          \/ <>(pc = "done" /\ NodeCount("draft") = 3))

\* three cycles, each with the unsupported "Second claim", then exported
\* with that claim still in the table
C35_Witness ==
    /\ pc = "done"
    /\ EveryPassUnsupported
    /\ NodeCount("draft") = 3
    /\ NodeCount("generate_images") = 1
    /\ \E k \in 1..Len(final_output[1].claims_table) :
          /\ final_output[1].claims_table[k].claim = "Second claim"
          /\ ~final_output[1].claims_table[k].is_supported
    /\ final_output[1].scorecard.iterations = 3

\* C36: a run that goes from the Verifier to the Image stage with the
\* iteration counter below 3 does so with critic feedback that passed and
\* with no unsupported claim in any draft; a FinalOutput whose
\* scorecard.iterations is below 3 therefore has scorecard.passed true and
\* no claims-table row with is_supported false.
C36_EarlyExitIsClean ==
    /\ []((pc \in {"generate_images", "export", "done"} /\ iteration < 3) =>
            /\ critic_feedback # << >>
            /\ critic_feedback[1].passed
            /\ UnsupportedCount(drafts) = 0
            /\ decision = "export")
    /\ []((pc = "done" /\ final_output[1].scorecard.iterations < 3) =>
            /\ final_output[1].scorecard.passed
            /\ \A k \in 1..Len(final_output[1].claims_table) :
                  final_output[1].claims_table[k].is_supported)

\* exported after the second cycle: passed, two drafts with one supported
\* claim each
C36_Witness ==
    /\ pc = "done"
    /\ final_output[1].scorecard.iterations = 2
    /\ final_output[1].scorecard.passed
    /\ Len(final_output[1].claims_table) = 2
    /\ \A k \in 1..2 : final_output[1].claims_table[k].is_supported

\* C37: when the Exporter runs, the Critic has run once per Drafter run and
\* before each loop decision, so critic feedback is present; the exported
\* scorecard then holds both scores, those of the feedback, and an
\* iteration count of at least 1.
C37_ScorecardNeverNull ==
    /\ pc \in {"generate_images", "export", "done"} =>
          /\ critic_feedback # << >>
          /\ NodeCount("critic") = NodeCount("draft")
          /\ NodeCount("critic") = NodeCount("verify")
          /\ NodeCount("critic") >= 1
    /\ pc = "done" =>
          LET scorecard == final_output[1].scorecard
          IN  /\ scorecard.brand_voice_score = <<critic_feedback[1].brand_voice_score>>
              /\ scorecard.cta_clarity_score = <<critic_feedback[1].cta_clarity_score>>
              /\ scorecard.iterations >= 1
              /\ scorecard.iterations = NodeCount("draft")

\* a run exported after its first cycle: scores 8 and 8, iterations 1
C37_Witness ==
    /\ pc = "done"
    /\ final_output[1].scorecard.iterations = 1
    /\ final_output[1].scorecard.brand_voice_score = <<8>>
    /\ final_output[1].scorecard.cta_clarity_score = <<8>>
    /\ NodeCount("critic") = 1

\* a block whose SOURCE token is user_input in some letter case
FromUserInput(block) == block.source # NoLine /\ Lower(block.source) = "user_input"

\* C39: a block that yields a claim and whose SOURCE is user_input, in any
\* letter case, yields it supported and with that source, whether its
\* SUPPORTED line says true, says false or is missing; it is not counted
\* unsupported, and a reply whose claims all come from user input leads to
\* no retry.
C39_UserInputAlwaysSupported ==
    [][(pc = "verify" /\ pc' # "verify") =>
          LET long == SelectSeq(verifier_replies'[1], HasLongText)
              claims == drafts'[1].val.claims
              entry == audit_log'[Len(audit_log')]
          IN  /\ Len(claims) = Len(long)
              /\ \A j \in 1..Len(long) :
                    FromUserInput(long[j]) =>
                        /\ claims[j].is_supported
                        /\ claims[j].source_chunk_id = long[j].source
              /\ entry.details.unsupported_claims
                    = Cardinality({j \in 1..Len(long) : ~claims[j].is_supported})
              /\ entry.details.unsupported_claims
                    <= Cardinality({j \in 1..Len(long) : ~FromUserInput(long[j])})
              /\ (\A j \in 1..Len(long) : FromUserInput(long[j])) =>
                    decision' = "export"]_vars

\* two claims from user input, one marked SUPPORTED: false in upper case,
\* one in mixed case without a SUPPORTED line: both supported, no retry
C39_Witness ==
    /\ pc # "verify"
    /\ verifier_replies = <<<<VerifierBlock("Claim1", "USER_INPUT", "false"),
                              VerifierBlock("Claim1", "User_Input", NoLine)>>>>
    /\ drafts[1].val.claims = <<Claim("Claim1", "USER_INPUT", TRUE),
                                Claim("Claim1", "User_Input", TRUE)>>
    /\ decision = "export"

====
